---- MODULE Spec2Model ----
(***************************************************************************)
(* The SemantleGame screen of src/app/(tabs)/index.tsx (the version with   *)
(* clues, lines 616-1033) and the GameService it calls                     *)
(* (src/unnamed/part_000), as a state machine.                             *)
(*                                                                         *)
(* The component's React state is the state; every handler is one action   *)
(* up to its first await, and every await is one more action (the          *)
(* continuation that runs when the request resolves or fails).  An         *)
(* in-flight request is a record of `tasks`, holding what the handler's    *)
(* closure captured.  The remote service is the environment: it keeps the  *)
(* games and answers each request when the request resolves.               *)
(***************************************************************************)
EXTENDS Naturals, Integers, Sequences, FiniteSets, Bags, TLC

\* ---------------------------------------------------------------- bounds
MaxGames == 2          \* games the service creates in one run
MaxTasks == 2          \* async handler runs in flight at once
MaxTimers == 2         \* clue-expiry timers pending at once
MaxInits == 1          \* health checks in flight at once
MaxLedger == 3         \* guesses of a rendered guess list
ScoreSteps == 10       \* a similarity score is a whole number of 1/ScoreSteps

\* ------------------------------------------------------- program constants
\* A cap that lets a fourth clue through.
MAX_CLUES_OffByOne == 3 + 1

MAX_CLUES == 3

\* ------------------------------------------------------------------ text
\* A text is a sequence of characters; "A" is the upper-case form of "a".
Inputs == { <<>>, <<" ">>, <<" ", "A">>, <<"c">> }

LowerChar(ch) == IF ch = "A" THEN "a" ELSE ch

toLowerCase(s) == [i \in 1..Len(s) |-> LowerChar(s[i])]

RECURSIVE trimStart(_)
trimStart(s) ==
  IF s # <<>> /\ Head(s) = " " THEN trimStart(Tail(s)) ELSE s

RECURSIVE trimEnd(_)
trimEnd(s) ==
  IF s # <<>> /\ s[Len(s)] = " " THEN trimEnd(SubSeq(s, 1, Len(s) - 1)) ELSE s

trim(s) == trimEnd(trimStart(s))

\* ------------------------------------------------------- the remote service
\* The scoring of the day's target word: similarity, rank and percentile are
\* fixed per word; "c" is the target.  "a" and "b" score the same (45.2) and
\* rank differently, "d" is further away.
TargetWord == <<"c">>
NoPercentile == -1

Similarity(w) ==
  IF w = TargetWord THEN 100 * ScoreSteps
  ELSE IF w = <<"d">> THEN 30 * ScoreSteps
  ELSE 45 * ScoreSteps + 2

Rank(w) ==
  IF w = TargetWord THEN 1
  ELSE IF w = <<"b">> THEN 1100
  ELSE IF w = <<"d">> THEN 5000
  ELSE 1200

Percentile(w) == IF w = TargetWord THEN 1000 ELSE NoPercentile

Guess(w, n) ==
  [ word |-> w, similarity |-> Similarity(w), guess_number |-> n,
    rank |-> Rank(w), percentile |-> Percentile(w),
    is_correct |-> (w = TargetWord) ]

\* The GameState payload of game g (start-game and fetch-session responses).
GameStateOf(games, g) ==
  [ game_id |-> g,
    guesses |-> games[g].guesses,
    guess_count |-> Len(games[g].guesses),
    game_over |-> games[g].over ]

NewGame == [ guesses |-> <<>>, over |-> FALSE, clues |-> 0 ]

\* The service numbers a game's clues 1, 2, ...; it may be one ahead of what
\* the client expects, so it reports up to one more than the client's cap.
ServiceClueLimit == MAX_CLUES + 1

HasWord(gs, w) == \E i \in 1..Len(gs) : gs[i].word = w

IndexOfWord(gs, w) == CHOOSE i \in 1..Len(gs) : gs[i].word = w

\* ------------------------------------------------------------- the client
NoGame == [ game_id |-> 0, guesses |-> <<>>, guess_count |-> 0, game_over |-> FALSE ]
NoClue == <<>>
NoResult == [ is_correct |-> FALSE, guess_number |-> 0 ]
NoWord == <<>>

VARIABLES
  mounted,       \* the mount effect has run
  gameState,     \* useState<GameState | null>; NoGame is null
  guessInput,    \* useState("")
  loading,       \* useState(false)
  apiConnected,  \* useState<boolean | null>: "null", "true" or "false"
  error,         \* useState("")
  cluesUsed,     \* useState(0)
  currentClue,   \* useState(""): NoClue, or <<game, clue_number>> for the clue text
  tasks,         \* bag of in-flight requests, each with its closure's captures
  clueTimers,    \* pending 10 s timers, oldest first, each tagged with its clue
  celebrations,  \* pending 500 ms celebration timers
  revealed,      \* the target word the last give-up alert has shown, or NoWord
  games,         \* the service: games[g] for every game id g issued so far
  renderInput,   \* a render helper under evaluation: its name and argument
  renderOutput   \* what the helper returned

vars == << mounted, gameState, guessInput, loading, apiConnected, error, cluesUsed,
           currentClue, tasks, clueTimers, celebrations, revealed, games,
           renderInput, renderOutput >>

Task(req, g, w, r) == [ req |-> req, game_id |-> g, word |-> w, result |-> r ]

\* startGame("normal", dailyMode)
StartGameRequest(dailyMode) ==
  [ req |-> "startGame", game_id |-> 0, word |-> <<>>, result |-> NoResult,
    dailyMode |-> dailyMode ]

Spawn(t) == tasks (+) SetToBag({t})
Finish(t) == tasks (-) SetToBag({t})
Continue(t, u) == (tasks (-) SetToBag({t})) (+) SetToBag({u})

InFlight == BagToSet(tasks)
CanSpawn == BagCardinality(tasks) < MaxTasks

\* The client names a game only by the id in gameState or by an id a request
\* in flight has captured.  A game nothing names any more is never asked about
\* again, so its record is dropped.
Referenced(g, ts, gs) == gs.game_id = g \/ \E t \in BagToSet(ts) : t.game_id = g

Forgotten == [ guesses |-> <<>>, over |-> TRUE, clues |-> 0 ]

Forget(G, ts, gs) ==
  [ g \in 1..Len(G) |-> IF Referenced(g, ts, gs) THEN G[g] ELSE Forgotten ]

\* No render helper is evaluated on its own while the component runs.
NoRender == [ fn |-> "none", arg |-> <<>> ]
NotRendered == [ done |-> FALSE, value |-> <<>> ]
Rendered(v) == [ done |-> TRUE, value |-> v ]

Unmounted ==
  /\ mounted = FALSE
  /\ gameState = NoGame
  /\ guessInput = <<>>
  /\ loading = FALSE
  /\ apiConnected = "null"
  /\ error = ""
  /\ cluesUsed = 0
  /\ currentClue = NoClue
  /\ tasks = EmptyBag
  /\ clueTimers = <<>>
  /\ celebrations = 0
  /\ revealed = NoWord
  /\ games = <<>>

Init ==
  /\ Unmounted
  /\ renderInput = NoRender
  /\ renderOutput = NotRendered


\* ------------------------------------------------------------- failures
\* How a request fails: a non-2xx response whose body has a detail, or one
\* whose body has none.
Failures == { "detail", "nodetail" }
DetailText == "detail from the service"

\* throw new Error(error.detail || fallback)
ServiceError(fallback, f) ==
  [ isError |-> TRUE,
    message |-> IF f = "detail" THEN DetailText ELSE fallback ]

\* err instanceof Error ? err.message : fallback
ErrText(err, fallback) == IF err.isError THEN err.message ELSE fallback

CountReq(req) ==
  BagCardinality([ t \in { u \in InFlight : u.req = req } |-> tasks[t] ])

\* ------------------------------------------------------ initializeGame
\* Up to the first await: the health check is sent.
initializeGame ==
  /\ CanSpawn
  /\ CountReq("checkHealth") < MaxInits
  /\ tasks' = Spawn(Task("checkHealth", 0, <<>>, NoResult))
  /\ UNCHANGED << gameState, guessInput, loading, apiConnected, error, cluesUsed,
                  currentClue, clueTimers, celebrations, revealed, games >>

\* useEffect(() => { initializeGame(); }, [initializeGame])
Mount ==
  /\ ~mounted
  /\ mounted' = TRUE
  /\ initializeGame

\* The retry button's onPress.
Retry ==
  /\ mounted
  /\ initializeGame
  /\ UNCHANGED mounted

\* checkHealth never throws: it resolves to response.ok, or to false.
CheckHealthResolves(t, connected) ==
  /\ t.req = "checkHealth"
  /\ apiConnected' = (IF connected THEN "true" ELSE "false")
  /\ IF connected
       THEN /\ loading' = TRUE
            /\ error' = ""
            /\ tasks' = Continue(t, StartGameRequest(TRUE))
       ELSE /\ tasks' = Finish(t)
            /\ UNCHANGED << loading, error >>
  /\ UNCHANGED << mounted, gameState, guessInput, cluesUsed, currentClue,
                  clueTimers, celebrations, revealed, games >>

\* ------------------------------------------------- startGame continuation
\* The try/catch/finally of initializeGame and of startNewGame are the same.
\* The service creates the game and answers with its state.
\* A start whose finally block does not run.
StartGameResolves_KeepsLoading(t) ==
  /\ t.req = "startGame"
  /\ Len(games) < MaxGames
  /\ gameState' = GameStateOf(Append(games, NewGame), Len(games) + 1)
  /\ guessInput' = <<>>
  /\ tasks' = Finish(t)
  /\ games' = Forget(Append(games, NewGame), tasks', gameState')
  /\ UNCHANGED << mounted, loading, apiConnected, error, cluesUsed, currentClue,
                  clueTimers, celebrations, revealed >>

StartGameResolves(t) ==
  /\ t.req = "startGame"
  /\ Len(games) < MaxGames
  /\ gameState' = GameStateOf(Append(games, NewGame), Len(games) + 1)
  /\ guessInput' = <<>>
  /\ loading' = FALSE
  /\ tasks' = Finish(t)
  /\ games' = Forget(Append(games, NewGame), tasks', gameState')
  /\ UNCHANGED << mounted, apiConnected, error, cluesUsed, currentClue,
                  clueTimers, celebrations, revealed >>

\* A start that is sent again when it fails.
StartGameFails_Retries(t, f) ==
  /\ t.req = "startGame"
  /\ error' = ErrText(ServiceError("Failed to start game", f), "Failed to start game")
  /\ loading' = FALSE
  /\ tasks' = Continue(t, StartGameRequest(TRUE))
  /\ UNCHANGED << mounted, gameState, guessInput, apiConnected, cluesUsed,
                  currentClue, clueTimers, celebrations, revealed, games >>

StartGameFails(t, f) ==
  /\ t.req = "startGame"
  /\ error' = ErrText(ServiceError("Failed to start game", f), "Failed to start game")
  /\ loading' = FALSE
  /\ tasks' = Finish(t)
  /\ UNCHANGED << mounted, gameState, guessInput, apiConnected, cluesUsed,
                  currentClue, clueTimers, celebrations, revealed, games >>

\* startNewGame up to its await, called by handleGiveUp's continuation.
startNewGame(t, dailyMode) ==
  /\ loading' = TRUE
  /\ error' = ""
  /\ tasks' = Continue(t, StartGameRequest(dailyMode))

\* ------------------------------------------------------------ handleGuess
\* handleGuess as the render that holds `text` in guessInput defines it.
\* makeGuess builds the request body, word lower-cased and trimmed, at the call.
\* handleGuess without the test of gameState.
handleGuess_NoSessionTest(text) ==
  IF trim(text) = <<>> \/ loading
    THEN UNCHANGED << mounted, gameState, loading, apiConnected, error, cluesUsed,
                      currentClue, tasks, clueTimers, celebrations, revealed, games >>
    ELSE /\ CanSpawn
         /\ loading' = TRUE
         /\ error' = ""
         /\ tasks' = Spawn(Task("makeGuess", gameState.game_id,
                                trim(toLowerCase(text)), NoResult))
         /\ UNCHANGED << mounted, gameState, apiConnected, cluesUsed,
                         currentClue, clueTimers, celebrations, revealed, games >>

\* A guess sent as it was typed.
handleGuess_SendsRawText(text) ==
  IF trim(text) = <<>> \/ gameState = NoGame \/ loading
    THEN UNCHANGED << mounted, gameState, loading, apiConnected, error, cluesUsed,
                      currentClue, tasks, clueTimers, celebrations, revealed, games >>
    ELSE /\ CanSpawn
         /\ loading' = TRUE
         /\ error' = ""
         /\ tasks' = Spawn(Task("makeGuess", gameState.game_id, text, NoResult))
         /\ UNCHANGED << mounted, gameState, apiConnected, cluesUsed,
                         currentClue, clueTimers, celebrations, revealed, games >>

handleGuess(text) ==
  IF trim(text) = <<>> \/ gameState = NoGame \/ loading
    THEN UNCHANGED << mounted, gameState, loading, apiConnected, error, cluesUsed,
                      currentClue, tasks, clueTimers, celebrations, revealed, games >>
    ELSE /\ CanSpawn
         /\ loading' = TRUE
         /\ error' = ""
         /\ tasks' = Spawn(Task("makeGuess", gameState.game_id,
                                trim(toLowerCase(text)), NoResult))
         /\ UNCHANGED << mounted, gameState, apiConnected, cluesUsed,
                         currentClue, clueTimers, celebrations, revealed, games >>

\* onChangeText={setGuessInput}, then onSubmitEditing={handleGuess}: the
\* player types a text and submits it.
SubmitEditing(text) ==
  /\ guessInput' = text
  /\ handleGuess(text)

\* The guess button's onPress, with the text the input holds.
PressGuess ==
  /\ UNCHANGED guessInput
  /\ handleGuess(guessInput)

\* The service scores the word and keeps one entry per word.
ServiceGuess(gs, w) ==
  IF HasWord(gs, w) THEN gs ELSE Append(gs, Guess(w, Len(gs) + 1))

\* A client that builds its list from the guess response and fetches nothing.
MakeGuessResolves_AppliesResponse(t) ==
  /\ t.req = "makeGuess"
  /\ ~games[t.game_id].over
  /\ LET gs == ServiceGuess(games[t.game_id].guesses, t.word)
         result == gs[IndexOfWord(gs, t.word)]
     IN /\ gameState' = [ gameState EXCEPT
                            !.guesses = Append(@, result),
                            !.guess_count = @ + 1 ]
        /\ tasks' = Finish(t)
        /\ games' = Forget([games EXCEPT ![t.game_id] =
                              [ @ EXCEPT !.guesses = gs, !.over = result.is_correct ]],
                           tasks', gameState')
  /\ guessInput' = <<>>
  /\ loading' = FALSE
  /\ UNCHANGED << mounted, apiConnected, error, cluesUsed, currentClue,
                  clueTimers, celebrations, revealed >>

MakeGuessResolves(t) ==
  /\ t.req = "makeGuess"
  /\ ~games[t.game_id].over
  /\ LET gs == ServiceGuess(games[t.game_id].guesses, t.word)
         result == gs[IndexOfWord(gs, t.word)]
     IN /\ games' = [games EXCEPT ![t.game_id] =
                       [ @ EXCEPT !.guesses = gs, !.over = result.is_correct ]]
        /\ tasks' = Continue(t, Task("getGameState", t.game_id, t.word,
                       [ is_correct |-> result.is_correct,
                         guess_number |-> result.guess_number ]))
  /\ UNCHANGED << mounted, gameState, guessInput, loading, apiConnected, error,
                  cluesUsed, currentClue, clueTimers, celebrations, revealed >>

\* The catch block applying the guess it could not confirm.
GuessFailed_PartlyApplied(t, err) ==
  /\ error' = ErrText(err, "guess error")
  /\ loading' = FALSE
  /\ tasks' = Finish(t)
  /\ gameState' = [gameState EXCEPT !.guess_count = @ + 1]
  /\ UNCHANGED << mounted, guessInput, apiConnected, cluesUsed,
                  currentClue, clueTimers, celebrations, revealed >>
  /\ games' = Forget(games, tasks', gameState')

\* The catch and finally blocks of handleGuess.
GuessFailed(t, err) ==
  /\ error' = ErrText(err, "guess error")
  /\ loading' = FALSE
  /\ tasks' = Finish(t)
  /\ UNCHANGED << mounted, gameState, guessInput, apiConnected, cluesUsed,
                  currentClue, clueTimers, celebrations, revealed >>
  /\ games' = Forget(games, tasks', gameState')

MakeGuessFails(t, f) ==
  /\ t.req = "makeGuess"
  /\ GuessFailed(t, ServiceError("Failed to make guess", f))

\* A client that adds the guess to its own list instead of taking the
\* service's list.
GuessRefreshed_Appending(t, updatedState) ==
  /\ gameState' =
       [ updatedState EXCEPT
           !.guesses = Append(gameState.guesses, Guess(t.word, t.result.guess_number)),
           !.guess_count = gameState.guess_count + 1 ]
  /\ guessInput' = <<>>
  /\ celebrations' = IF t.result.is_correct THEN celebrations + 1 ELSE celebrations
  /\ loading' = FALSE
  /\ tasks' = Finish(t)
  /\ UNCHANGED << mounted, apiConnected, error, cluesUsed, currentClue, clueTimers,
                  revealed >>
  /\ games' = Forget(games, tasks', gameState')

\* A client that shows the notice while it commits the response: no timer is
\* left pending.
GuessRefreshed_ShowsAtOnce(t, updatedState) ==
  /\ gameState' = updatedState
  /\ guessInput' = <<>>
  /\ loading' = FALSE
  /\ tasks' = Finish(t)
  /\ UNCHANGED << mounted, apiConnected, error, cluesUsed, currentClue, clueTimers,
                  celebrations, revealed >>
  /\ games' = Forget(games, tasks', gameState')

\* The rest of the try block of handleGuess, then its finally block.
GuessRefreshed(t, updatedState) ==
  /\ gameState' = updatedState
  /\ guessInput' = <<>>
  /\ celebrations' = IF t.result.is_correct THEN celebrations + 1 ELSE celebrations
  /\ loading' = FALSE
  /\ tasks' = Finish(t)
  /\ UNCHANGED << mounted, apiConnected, error, cluesUsed, currentClue, clueTimers,
                  revealed >>
  /\ games' = Forget(games, tasks', gameState')

GetGameStateResolves(t) ==
  /\ t.req = "getGameState"
  /\ GuessRefreshed(t, GameStateOf(games, t.game_id))

GetGameStateFails(t, f) ==
  /\ t.req = "getGameState"
  /\ GuessFailed(t, ServiceError("Failed to get game state", f))

\* setTimeout(() => alert(...), 500): the timer fires and the notice is shown.
CelebrationFires ==
  /\ celebrations > 0
  /\ celebrations' = celebrations - 1
  /\ UNCHANGED << mounted, gameState, guessInput, loading, apiConnected, error,
                  cluesUsed, currentClue, tasks, clueTimers, revealed, games >>

\* ----------------------------------------------------------- handleGiveUp
\* confirmed is the player's answer to confirm().
handleGiveUp(confirmed) ==
  IF gameState = NoGame \/ ~confirmed
    THEN UNCHANGED vars
    ELSE /\ CanSpawn
         /\ tasks' = Spawn(Task("giveUp", gameState.game_id, <<>>, NoResult))
         /\ UNCHANGED << mounted, gameState, guessInput, loading, apiConnected,
                         error, cluesUsed, currentClue, clueTimers, celebrations, revealed,
                         games >>

\* A continuation that shows the word and starts nothing.
GiveUpResolves_StartsNothing(t) ==
  /\ t.req = "giveUp"
  /\ ~games[t.game_id].over
  /\ revealed' = TargetWord
  /\ tasks' = Finish(t)
  /\ UNCHANGED << mounted, gameState, guessInput, loading, apiConnected, error,
                  cluesUsed, currentClue, clueTimers, celebrations >>
  /\ games' = Forget([games EXCEPT ![t.game_id].over = TRUE], tasks', gameState')

\* The service ends the game; the target word is shown in an alert and
\* startNewGame(true) is called.
GiveUpResolves(t) ==
  /\ t.req = "giveUp"
  /\ ~games[t.game_id].over
  /\ revealed' = TargetWord
  /\ startNewGame(t, TRUE)
  /\ UNCHANGED << mounted, gameState, guessInput, apiConnected, cluesUsed,
                  currentClue, clueTimers, celebrations >>
  /\ games' = Forget([games EXCEPT ![t.game_id].over = TRUE], tasks', gameState')

\* A failed give-up that starts a new game all the same.
GiveUpFails_StartsAnyway(t, f) ==
  /\ t.req = "giveUp"
  /\ ServiceError("Failed to give up", f).isError
  /\ error' = "give-up error"
  /\ loading' = TRUE
  /\ tasks' = Continue(t, StartGameRequest(TRUE))
  /\ UNCHANGED << mounted, gameState, guessInput, apiConnected, cluesUsed,
                  currentClue, clueTimers, celebrations, revealed >>
  /\ games' = Forget(games, tasks', gameState')

\* giveUp throws Error(detail || "Failed to give up"); the catch of
\* handleGiveUp binds no error and sets its own text.
GiveUpFails(t, f) ==
  /\ t.req = "giveUp"
  /\ ServiceError("Failed to give up", f).isError
  /\ error' = "give-up error"
  /\ tasks' = Finish(t)
  /\ UNCHANGED << mounted, gameState, guessInput, loading, apiConnected, cluesUsed,
                  currentClue, clueTimers, celebrations, revealed >>
  /\ games' = Forget(games, tasks', gameState')

\* ---------------------------------------------------------- handleGetClue
handleGetClue ==
  IF gameState = NoGame \/ loading
    THEN UNCHANGED vars
    ELSE IF cluesUsed >= MAX_CLUES
      THEN UNCHANGED vars
      ELSE /\ CanSpawn
           /\ Len(clueTimers) + CountReq("getClue") < MaxTimers
           /\ loading' = TRUE
           /\ error' = ""
           /\ tasks' = Spawn(Task("getClue", gameState.game_id, <<>>, NoResult))
           /\ UNCHANGED << mounted, gameState, guessInput, apiConnected, cluesUsed,
                           currentClue, clueTimers, celebrations, revealed, games >>

\* A reveal that arms no timer.
ClueRevealed_ArmsNoTimer(t, clueResponse) ==
  /\ currentClue' = clueResponse.clue
  /\ cluesUsed' = clueResponse.clue_number
  /\ loading' = FALSE
  /\ tasks' = Finish(t)
  /\ UNCHANGED << mounted, gameState, guessInput, apiConnected, error,
                  clueTimers, celebrations, revealed >>

\* The try block of handleGetClue after the await, then its finally block.
ClueRevealed(t, clueResponse) ==
  /\ currentClue' = clueResponse.clue
  /\ cluesUsed' = clueResponse.clue_number
  /\ clueTimers' = Append(clueTimers, clueResponse.clue)
  /\ loading' = FALSE
  /\ tasks' = Finish(t)
  /\ UNCHANGED << mounted, gameState, guessInput, apiConnected, error,
                  celebrations, revealed >>

\* The service answers with the game's next clue and its number.
GetClueResolves(t) ==
  /\ t.req = "getClue"
  /\ games[t.game_id].clues < ServiceClueLimit
  /\ LET clue_number == games[t.game_id].clues + 1
     IN /\ ClueRevealed(t, [ clue |-> << t.game_id, clue_number >>,
                             clue_number |-> clue_number ])
        /\ games' = Forget([games EXCEPT ![t.game_id].clues = clue_number],
                           tasks', gameState')

\* A catch block that counts the clue it did not get.
ClueFailed_CountsClue(t, err) ==
  /\ error' = ErrText(err, "clue error")
  /\ loading' = FALSE
  /\ tasks' = Finish(t)
  /\ cluesUsed' = cluesUsed + 1
  /\ UNCHANGED << mounted, gameState, guessInput, apiConnected,
                  currentClue, clueTimers, celebrations, revealed >>

\* The catch and finally blocks of handleGetClue.
ClueFailed(t, err) ==
  /\ error' = ErrText(err, "clue error")
  /\ loading' = FALSE
  /\ tasks' = Finish(t)
  /\ UNCHANGED << mounted, gameState, guessInput, apiConnected, cluesUsed,
                  currentClue, clueTimers, celebrations, revealed >>

GetClueFails(t, f) ==
  /\ t.req = "getClue"
  /\ ClueFailed(t, ServiceError("Failed to get clue", f))
  /\ games' = Forget(games, tasks', gameState')

\* setTimeout(() => setCurrentClue(""), 10000): timers of one delay fire in
\* the order they were armed.
ClueTimerFires ==
  /\ clueTimers # <<>>
  /\ currentClue' = NoClue
  /\ clueTimers' = Tail(clueTimers)
  /\ UNCHANGED << mounted, gameState, guessInput, loading, apiConnected, error,
                  cluesUsed, tasks, celebrations, revealed, games >>

\* ------------------------------------------------------- specifications
\* What happens without the caller: requests resolve or fail, timers fire.
Resolves ==
  \/ \E t \in InFlight, connected \in BOOLEAN : CheckHealthResolves(t, connected)
  \/ \E t \in InFlight : StartGameResolves(t)
  \/ \E t \in InFlight, f \in Failures : StartGameFails(t, f)
  \/ \E t \in InFlight : MakeGuessResolves(t)
  \/ \E t \in InFlight, f \in Failures : MakeGuessFails(t, f)
  \/ \E t \in InFlight : GetGameStateResolves(t)
  \/ \E t \in InFlight, f \in Failures : GetGameStateFails(t, f)
  \/ \E t \in InFlight : GiveUpResolves(t)
  \/ \E t \in InFlight, f \in Failures : GiveUpFails(t, f)
  \/ \E t \in InFlight : GetClueResolves(t)
  \/ \E t \in InFlight, f \in Failures : GetClueFails(t, f)
  \/ ClueTimerFires
  \/ CelebrationFires

\* ------------------------------------------------------ similarity bands
\* A similarity is a score of 0 to 100, kept as a number of 1/ScoreSteps.
\* getSimilarityColor with every test exclusive of its threshold.
getSimilarityColor_Exclusive(similarity) ==
  IF similarity > 80 * ScoreSteps THEN "#10b981"
  ELSE IF similarity > 70 * ScoreSteps THEN "#84cc16"
  ELSE IF similarity > 60 * ScoreSteps THEN "#eab308"
  ELSE IF similarity > 50 * ScoreSteps THEN "#f59e0b"
  ELSE IF similarity > 40 * ScoreSteps THEN "#f97316"
  ELSE IF similarity > 30 * ScoreSteps THEN "#ef4444"
  ELSE IF similarity > 20 * ScoreSteps THEN "#3b82f6"
  ELSE "#6b7280"

getSimilarityColor(similarity) ==
  IF similarity >= 80 * ScoreSteps THEN "#10b981"
  ELSE IF similarity >= 70 * ScoreSteps THEN "#84cc16"
  ELSE IF similarity >= 60 * ScoreSteps THEN "#eab308"
  ELSE IF similarity >= 50 * ScoreSteps THEN "#f59e0b"
  ELSE IF similarity >= 40 * ScoreSteps THEN "#f97316"
  ELSE IF similarity >= 30 * ScoreSteps THEN "#ef4444"
  ELSE IF similarity >= 20 * ScoreSteps THEN "#3b82f6"
  ELSE "#6b7280"

\* The glyphs are named: three, two and one flame, thermometer, sun behind
\* cloud, cloud, snowflake, ice.
\* getTemperatureEmoji with the second band opening at 75.
getTemperatureEmoji_BandAt75(similarity) ==
  IF similarity >= 80 * ScoreSteps THEN "flame flame flame"
  ELSE IF similarity >= 75 * ScoreSteps THEN "flame flame"
  ELSE IF similarity >= 60 * ScoreSteps THEN "flame"
  ELSE IF similarity >= 50 * ScoreSteps THEN "thermometer"
  ELSE IF similarity >= 40 * ScoreSteps THEN "sun behind cloud"
  ELSE IF similarity >= 30 * ScoreSteps THEN "cloud"
  ELSE IF similarity >= 20 * ScoreSteps THEN "snowflake"
  ELSE "ice"

getTemperatureEmoji(similarity) ==
  IF similarity >= 80 * ScoreSteps THEN "flame flame flame"
  ELSE IF similarity >= 70 * ScoreSteps THEN "flame flame"
  ELSE IF similarity >= 60 * ScoreSteps THEN "flame"
  ELSE IF similarity >= 50 * ScoreSteps THEN "thermometer"
  ELSE IF similarity >= 40 * ScoreSteps THEN "sun behind cloud"
  ELSE IF similarity >= 30 * ScoreSteps THEN "cloud"
  ELSE IF similarity >= 20 * ScoreSteps THEN "snowflake"
  ELSE "ice"

\* ------------------------------------------------------ percentile text
\* A text is a sequence of characters.  The text of a number n >= 0 is its
\* decimal digits, without leading zeros.
Digit(d) == << "0", "1", "2", "3", "4", "5", "6", "7", "8", "9" >>[d + 1]

RECURSIVE NumberToString(_)
NumberToString(n) ==
  IF n < 10 THEN << Digit(n) >> ELSE NumberToString(n \div 10) \o << Digit(n % 10) >>

\* The placeholder is one character, an em dash.
Placeholder == << "em dash" >>

\* getPercentileDisplay taking every falsy percentile for an absent one.
getPercentileDisplay_FalsyIsAbsent(percentile) ==
  IF percentile = NoPercentile \/ percentile = 0
    THEN Placeholder
    ELSE NumberToString(percentile) \o << "/", "1", "0", "0", "0" >>

getPercentileDisplay(percentile) ==
  IF percentile = NoPercentile
    THEN Placeholder
    ELSE NumberToString(percentile) \o << "/", "1", "0", "0", "0" >>

\* ------------------------------------------------------- the guess list
\* [...gameState.guesses].sort((a, b) => b.similarity - a.similarity)
\* Array.prototype.sort is stable: x goes before the first entry that the
\* comparator puts after it.
compare(a, b) == b.similarity - a.similarity

RECURSIVE insertSorted(_, _)
insertSorted(sorted, x) ==
  IF sorted = <<>> THEN << x >>
  ELSE IF compare(Head(sorted), x) > 0
         THEN << x >> \o sorted
         ELSE << Head(sorted) >> \o insertSorted(Tail(sorted), x)

RECURSIVE sort(_)
sort(gs) ==
  IF gs = <<>> THEN <<>>
  ELSE insertSorted(sort(SubSeq(gs, 1, Len(gs) - 1)), gs[Len(gs)])

\* The rows of the guess list, top to bottom.
OrderedView_Unsorted(guesses) == guesses

OrderedView(guesses) == sort(guesses)

\* const topGuess = gameState.guesses.length > 0 ? gameState.guesses[0] : null
NoTopGuess == "null"

topGuess ==
  IF Len(gameState.guesses) > 0 THEN gameState.guesses[1] ELSE NoTopGuess

\* ------------------------------------------------------------ the screen
\* What the render shows decides which handlers the player can reach.
RetryShown == apiConnected = "false"
GameShown == apiConnected # "false" /\ gameState # NoGame

\* <TextInput editable={!loading && !gameState.game_over}>
InputEditable == GameShown /\ ~loading /\ ~gameState.game_over

\* disabled={loading || !guessInput.trim() || gameState.game_over}
GuessButtonEnabled ==
  GameShown /\ ~(loading \/ trim(guessInput) = <<>> \/ gameState.game_over)

\* A clue button that stays enabled when the game is over.
ClueButtonEnabled_WhenOver ==
  GameShown /\ ~(loading \/ cluesUsed >= MAX_CLUES)

\* disabled={loading || cluesUsed >= 3 || gameState.game_over}
ClueButtonEnabled ==
  GameShown /\ ~(loading \/ cluesUsed >= MAX_CLUES \/ gameState.game_over)

\* disabled={gameState.game_over}
GiveUpButtonEnabled == GameShown /\ ~gameState.game_over

Next ==
  /\ \/ Mount
     \/ RetryShown /\ Retry
     \/ \E text \in Inputs : InputEditable /\ SubmitEditing(text)
     \/ GuessButtonEnabled /\ PressGuess
     \/ \E confirmed \in BOOLEAN : GiveUpButtonEnabled /\ handleGiveUp(confirmed)
     \/ ClueButtonEnabled /\ handleGetClue
     \/ Resolves
  /\ UNCHANGED << renderInput, renderOutput >>

Spec == Init /\ [][Next]_vars

\* The event loop runs the callback of every timeout whose delay has passed:
\* an armed clue timer is not postponed for ever.
\* A request of a run that holds the loading flag resolves or fails.
Settles ==
  \E t \in InFlight :
    \/ StartGameResolves(t)
    \/ MakeGuessResolves(t)
    \/ GetGameStateResolves(t)
    \/ GetClueResolves(t)
    \/ \E f \in Failures :
         \/ StartGameFails(t, f)
         \/ MakeGuessFails(t, f)
         \/ GetGameStateFails(t, f)
         \/ GetClueFails(t, f)

\* Every fetch of a start, guess, session or clue request settles: the service
\* answers it or the call fails, and the event loop runs the continuation.
RequestsSettle ==
  /\ Init
  /\ [][Next]_vars
  /\ WF_vars(Settles /\ UNCHANGED << renderInput, renderOutput >>)

TimersFire ==
  /\ Init
  /\ [][Next]_vars
  /\ WF_vars(ClueTimerFires /\ UNCHANGED << renderInput, renderOutput >>)

\* ------------------------------------------- the render helpers on their own
\* The helpers of the render are pure: each is evaluated once on an argument
\* the render can hand to it.  A guess list is a list the service can hold:
\* one entry per word, numbered in submission order, nothing after the target.
Words == { <<"a">>, <<"b">>, <<"c">>, <<"d">> }

WordLists ==
  UNION { { ws \in [1..n -> Words] :
              /\ \A i, j \in 1..n : ws[i] = ws[j] => i = j
              /\ \A i \in 1..n : ws[i] = TargetWord => i = n } : n \in 0..MaxLedger }

LedgerOf(ws) == [ i \in 1..Len(ws) |-> Guess(ws[i], i) ]

Ledgers == { LedgerOf(ws) : ws \in WordLists }

Scores == 0..(100 * ScoreSteps)

\* The percentile of a guess: absent, or a number of 0 to 1000.
Percentiles == { NoPercentile } \cup 0..1000

RenderInputs ==
  { [ fn |-> "guessList", arg |-> gs ] : gs \in Ledgers }
    \cup { [ fn |-> "getSimilarityColor", arg |-> score ] : score \in Scores }
    \cup { [ fn |-> "getTemperatureEmoji", arg |-> score ] : score \in Scores }
    \cup { [ fn |-> "getPercentileDisplay", arg |-> scored ] :
             scored \in [ percentile : Percentiles, rank : { 1, 1200 } ] }

component == << mounted, gameState, guessInput, loading, apiConnected, error,
                cluesUsed, currentClue, tasks, clueTimers, celebrations, revealed, games >>

RenderInit ==
  /\ Unmounted
  /\ renderInput \in RenderInputs
  /\ renderOutput = NotRendered

\* {[...gameState.guesses].sort(...).map(...)}
RenderGuessList ==
  /\ renderInput.fn = "guessList"
  /\ ~renderOutput.done
  /\ renderOutput' = Rendered(OrderedView(renderInput.arg))
  /\ UNCHANGED << component, renderInput >>

\* borderLeftColor: getSimilarityColor(guess.similarity)
RenderSimilarityColor ==
  /\ renderInput.fn = "getSimilarityColor"
  /\ ~renderOutput.done
  /\ renderOutput' = Rendered(getSimilarityColor(renderInput.arg))
  /\ UNCHANGED << component, renderInput >>

\* {getTemperatureEmoji(guess.similarity)}
RenderTemperatureEmoji ==
  /\ renderInput.fn = "getTemperatureEmoji"
  /\ ~renderOutput.done
  /\ renderOutput' = Rendered(getTemperatureEmoji(renderInput.arg))
  /\ UNCHANGED << component, renderInput >>

\* {getPercentileDisplay(guess.percentile)}
RenderPercentileDisplay ==
  /\ renderInput.fn = "getPercentileDisplay"
  /\ ~renderOutput.done
  /\ renderOutput' = Rendered(getPercentileDisplay(renderInput.arg.percentile))
  /\ UNCHANGED << component, renderInput >>

RenderNext ==
  \/ RenderGuessList
  \/ RenderSimilarityColor
  \/ RenderTemperatureEmoji
  \/ RenderPercentileDisplay

RenderSpec == RenderInit /\ [][RenderNext]_vars


\* ================================================================ claims

\* The requests that change a session: start, guess, give-up and clue.
SessionMutating == { "startGame", "makeGuess", "giveUp", "getClue" }

CountIn(reqs) ==
  BagCardinality([ t \in { u \in InFlight : u.req \in reqs } |-> tasks[t] ])

\* The runs of handleGuess and handleGetClue in flight for game g: a guess
\* run is in flight from makeGuess until its getGameState ends.
GuessOrClueRuns(g) ==
  BagCardinality([ t \in { u \in InFlight :
                           /\ u.req \in { "makeGuess", "getGameState", "getClue" }
                           /\ u.game_id = g } |-> tasks[t] ])

\* C1: in every reachable state at most one session-mutating request (guess,
\* clue, give-up, start) is in flight.
C1_AtMostOneMutatingRequest == CountIn(SessionMutating) <= 1

\* C2: a session never has two guess or clue requests in flight at once.
C2_OneGuessOrClueRunPerSession ==
  \A g \in 1..Len(games) : GuessOrClueRuns(g) <= 1

\* C3: the session on screen is the latest one the service started: no
\* response issued for an earlier session replaces the new session's state.
C3_StaleResponseIgnored ==
  gameState # NoGame => gameState.game_id = Len(games)

\* C4: cluesUsed never exceeds 3.
C4_CluesUsedAtMostThree == cluesUsed <= 3


\* C5: once cluesUsed has reached 3, no step sends a clue request, and an
\* invocation of handleGetClue leaves cluesUsed and the clue text unchanged.
C5_NoClueRequestAtCap ==
  [][cluesUsed >= 3 =>
       /\ CountIn({"getClue"})' <= CountIn({"getClue"})
       /\ (handleGetClue => UNCHANGED << cluesUsed, currentClue, tasks >>)]_vars

\* Three clues were revealed in the session on screen, nothing is in flight
\* and the game goes on: the player's fourth request is the next thing to try.
C5_Witness ==
  /\ gameState # NoGame
  /\ ~gameState.game_over
  /\ cluesUsed = 3
  /\ games[gameState.game_id].clues = 3
  /\ tasks = EmptyBag
  /\ ~loading

\* C6: the expiry timer armed for a clue clears the text only of that clue,
\* never the text of a clue revealed after it.
C6_TimerClearsOnlyItsOwnClue ==
  [][(ClueTimerFires /\ currentClue # NoClue) => Head(clueTimers) = currentClue]_vars

\* C7: a timer armed for a clue of an earlier session never clears the clue
\* of the session on screen.
C7_StaleTimerKeepsNewSessionClue ==
  [][(/\ ClueTimerFires
      /\ currentClue # NoClue
      /\ currentClue[1] = gameState.game_id
      /\ Head(clueTimers)[1] # gameState.game_id) => currentClue' = currentClue]_vars

\* C8: when a started session replaces the screen's session, the new session
\* starts with cluesUsed = 0 and no clue text.
C8_NewSessionHasNoClues ==
  [][(\E t \in InFlight : StartGameResolves(t))
       => (cluesUsed' = 0 /\ currentClue' = NoClue)]_vars

\* C9: no step of a guess that fails changes guess_count or the guess list of
\* gameState: not the step that sends the request, not the resolution of the
\* guess request, not the failure of either request; and the failing step
\* leaves a non-empty error message.
C9_FailedGuessChangesNothing ==
  [][/\ \A t \in InFlight, f \in Failures :
          (MakeGuessFails(t, f) \/ GetGameStateFails(t, f))
            => (/\ gameState'.guess_count = gameState.guess_count
                /\ gameState'.guesses = gameState.guesses
                /\ error' # "")
     /\ (CountIn({"makeGuess"})' > CountIn({"makeGuess"})
           \/ \E t \in InFlight : MakeGuessResolves(t))
          => gameState' = gameState]_vars

\* The session fetch of a guess has failed: the service holds the guess, the
\* screen holds the list and count from before the call, and the error shows.
C9_Witness ==
  /\ gameState # NoGame
  /\ error = "Failed to get game state"
  /\ ~loading
  /\ tasks = EmptyBag
  /\ Len(games[gameState.game_id].guesses) = 1
  /\ gameState.guess_count = 0
  /\ gameState.guesses = <<>>

IsSortedDescending(view) ==
  \A i, j \in 1..Len(view) : i < j => view[i].similarity >= view[j].similarity

IsPermutation(a, b) ==
  /\ Len(a) = Len(b)
  /\ \A x \in { a[i] : i \in 1..Len(a) } :
       Cardinality({ i \in 1..Len(a) : a[i] = x })
         = Cardinality({ i \in 1..Len(b) : b[i] = x })

\* C10: the displayed guess list is the guesses of gameState sorted by
\* similarity descending, in every reachable state.
C10_ViewSortedDescending ==
  /\ IsSortedDescending(OrderedView(gameState.guesses))
  /\ IsPermutation(OrderedView(gameState.guesses), gameState.guesses)

\* The service returned the guesses in submission order, the closer guess
\* last, and the list shows it first.
C10_Witness ==
  /\ Len(gameState.guesses) = 2
  /\ gameState.guesses[1].similarity < gameState.guesses[2].similarity
  /\ OrderedView(gameState.guesses)[1] = gameState.guesses[2]

\* C11: in the rendered guess list, two guesses with equal similarity are
\* ordered by rank ascending (the lower rank first), whatever the order in
\* which the guesses were submitted.
C11_TiesByRankAscending ==
  (renderInput.fn = "guessList" /\ renderOutput.done) =>
    \A i, j \in 1..Len(renderOutput.value) :
      (/\ i < j
       /\ renderOutput.value[i].similarity = renderOutput.value[j].similarity)
        => renderOutput.value[i].rank <= renderOutput.value[j].rank

\* C12: topGuess is the first row of the rendered guess list, or none when
\* the list is empty: the statistics shown at the top are those of the first
\* guess displayed.
C12_TopGuessIsFirstShown ==
  IF gameState.guesses = <<>>
    THEN topGuess = NoTopGuess
    ELSE topGuess = OrderedView(gameState.guesses)[1]

WordsOf(guesses) == { guesses[i].word : i \in 1..Len(guesses) }

session == << gameState, loading, error, cluesUsed, currentClue, tasks,
             clueTimers, celebrations, revealed, games >>

\* C14: a failed health check makes the screen the unreachable one; while it
\* is, no step sends a guess request, and handleGuess invoked on the state a
\* failed first health check leaves (no session) can only return at once,
\* changing nothing.
C14_UnreachableGuessIsNoOp ==
  [][/\ \A t \in InFlight :
          (t.req = "checkHealth" /\ CheckHealthResolves(t, FALSE))
            => (apiConnected' = "false" /\ RetryShown' /\ ~GameShown')
     /\ apiConnected = "false"
          => CountIn({ "makeGuess" })' <= CountIn({ "makeGuess" })
     /\ (apiConnected = "false" /\ gameState = NoGame)
          => \A text \in Inputs :
               ~ENABLED (handleGuess(text) /\ guessInput' = guessInput
                           /\ UNCHANGED << renderInput, renderOutput >>
                           /\ session' # session)]_vars

\* The first health check has failed: the retry view is shown, there is no
\* session and nothing is in flight.
C14_Witness ==
  /\ mounted
  /\ apiConnected = "false"
  /\ gameState = NoGame
  /\ tasks = EmptyBag

\* C15: the step in which a clue request fails changes neither cluesUsed nor
\* the clue text and arms no timer; cluesUsed changes only in the step that
\* applies a successful clue response.
C15_FailedClueChangesNothing ==
  [][/\ \A t \in InFlight, f \in Failures :
          GetClueFails(t, f) => UNCHANGED << cluesUsed, currentClue, clueTimers >>
     /\ cluesUsed' # cluesUsed => \E t \in InFlight : GetClueResolves(t)]_vars

\* A first clue was revealed and its timer is pending; the second request
\* has failed: the counter and the text are those of the first clue.
C15_Witness ==
  /\ gameState # NoGame
  /\ error = "Failed to get clue"
  /\ tasks = EmptyBag
  /\ cluesUsed = 1
  /\ currentClue = << gameState.game_id, 1 >>
  /\ clueTimers = << << gameState.game_id, 1 >> >>
  /\ games[gameState.game_id].clues = 1

\* C16: while the session on screen is over, no step sends a guess or a clue
\* request and no step changes the text typed; game_over of the screen's
\* session becomes false again only when another session replaces it.
C16_FinishedIsTerminal ==
  [][gameState.game_over =>
       /\ CountIn({ "makeGuess", "getClue" })' <= CountIn({ "makeGuess", "getClue" })
       /\ guessInput' = guessInput
       /\ ~gameState'.game_over => gameState'.game_id # gameState.game_id]_vars

\* The session on screen is over, nothing is in flight and clues are left:
\* only game_over keeps the input and the buttons from sending a request.
C16_Witness ==
  /\ apiConnected = "true"
  /\ gameState.game_over
  /\ ~loading
  /\ tasks = EmptyBag
  /\ cluesUsed < MAX_CLUES

\* The session on screen was given up: the service ended it on the player's
\* request, and not by a correct guess.
SessionGivenUp ==
  /\ gameState # NoGame
  /\ games[gameState.game_id].over
  /\ \A i \in 1..Len(games[gameState.game_id].guesses) :
       ~games[gameState.game_id].guesses[i].is_correct

\* C17: while there is no session, or the session on screen is over (its
\* game_over is set, or it was given up), no step sends a give-up request.
C17_GiveUpNeedsActiveSession ==
  [][(gameState = NoGame \/ gameState.game_over \/ SessionGivenUp)
       => CountIn({ "giveUp" })' <= CountIn({ "giveUp" })]_vars

\* C18: the step in which a give-up request succeeds shows the target word
\* and sends the start of a daily-mode session, leaving the session on
\* screen as it is; the word is shown in no other step and a start is sent
\* only by that step or by a health check; the step in which a start
\* succeeds puts a new session id with an empty guess list on screen.
C18_GiveUpThenRevealThenStart ==
  [][/\ \A t \in InFlight :
          (t.req = "giveUp" /\ GiveUpResolves(t))
            => /\ revealed' = TargetWord
               /\ CountIn({ "startGame" })' = CountIn({ "startGame" }) + 1
               /\ StartGameRequest(TRUE) \in BagToSet(tasks')
               /\ CountIn({ "giveUp" })' = CountIn({ "giveUp" }) - 1
               /\ gameState' = gameState
     /\ revealed' # revealed => \E t \in InFlight : GiveUpResolves(t)
     /\ CountIn({ "startGame" })' > CountIn({ "startGame" })
          => \E t \in InFlight :
               GiveUpResolves(t) \/ CheckHealthResolves(t, TRUE)
     /\ \A t \in InFlight :
          StartGameResolves(t)
            => /\ gameState'.game_id # gameState.game_id
               /\ gameState'.game_id = Len(games')
               /\ gameState'.guesses = <<>>
               /\ gameState'.guess_count = 0
               /\ ~gameState'.game_over]_vars

\* The player gave game 1 up: the word was shown, the start that followed
\* has succeeded and game 2 is on screen with no guesses.
C18_Witness ==
  /\ gameState.game_id = 2
  /\ gameState.guesses = <<>>
  /\ revealed = TargetWord
  /\ games[1].over
  /\ tasks = EmptyBag
  /\ ~loading

\* C19: the step that commits the session fetched after a correct guess
\* leaves one more celebration timer pending and puts the service's state of
\* the game, which is over, on screen; after a guess that is not correct it
\* leaves the pending timers as they are.  A timer is armed by no other step,
\* and the notice is shown only by the step in which a timer fires.
C19_CelebrationIsScheduled ==
  [][/\ \A t \in InFlight :
          (t.req = "getGameState" /\ GetGameStateResolves(t))
            => IF t.result.is_correct
                 THEN /\ celebrations' = celebrations + 1
                      /\ gameState' = GameStateOf(games, t.game_id)
                      /\ gameState'.game_over
                 ELSE celebrations' = celebrations
     /\ celebrations' > celebrations
          => \E t \in InFlight : t.result.is_correct /\ GetGameStateResolves(t)
     /\ celebrations' < celebrations => CelebrationFires]_vars

\* The session fetched after the correct guess is on screen, over, and the
\* celebration timer is pending: the notice has not been shown yet.
C19_Witness ==
  /\ gameState.game_over
  /\ \E i \in 1..Len(gameState.guesses) : gameState.guesses[i].is_correct
  /\ celebrations = 1
  /\ ~loading
  /\ tasks = EmptyBag

\* The eight bands of the specification, highest first: the lower bound of
\* each, in whole points, and its color.
ColorBands ==
  << << 80, "#10b981" >>, << 70, "#84cc16" >>, << 60, "#eab308" >>,
     << 50, "#f59e0b" >>, << 40, "#f97316" >>, << 30, "#ef4444" >>,
     << 20, "#3b82f6" >>, << 0, "#6b7280" >> >>

\* The bands whose lower bound is at or below the score.
BandsAtOrBelow(score) ==
  { b \in 1..Len(ColorBands) : ColorBands[b][1] * ScoreSteps <= score }

\* The highest of them: the one with the smallest index.
HighestBand(score) ==
  CHOOSE b \in BandsAtOrBelow(score) : \A c \in BandsAtOrBelow(score) : b <= c

\* C20: for every score of 0 to 100 the color is that of exactly one of the
\* eight bands, the highest band whose lower bound (80, 70, 60, 50, 40, 30,
\* 20, else 0) is at or below the score: a score at a bound is in the band
\* the bound opens, the score just below it is in the next band.
C20_ColorBandByInclusiveBounds ==
  (renderInput.fn = "getSimilarityColor" /\ renderOutput.done) =>
    /\ renderOutput.value = ColorBands[HighestBand(renderInput.arg)][2]
    /\ Cardinality({ b \in 1..Len(ColorBands) :
                       ColorBands[b][2] = renderOutput.value }) = 1

\* The color of a score on a bound (80, the top band) or of the score just
\* below it (the next band) has been computed.
C20_Witness ==
  /\ renderInput.fn = "getSimilarityColor"
  /\ renderOutput.done
  /\ \/ renderInput.arg = 80 * ScoreSteps /\ renderOutput.value = "#10b981"
     \/ renderInput.arg = 80 * ScoreSteps - 1 /\ renderOutput.value = "#84cc16"

\* The glyph of each band, highest band first.
GlyphBands ==
  << "flame flame flame", "flame flame", "flame", "thermometer",
     "sun behind cloud", "cloud", "snowflake", "ice" >>

\* The band a color, or a glyph, belongs to.
ColorBandOf(color) == CHOOSE b \in 1..Len(ColorBands) : ColorBands[b][2] = color

GlyphBandOf(glyph) == CHOOSE b \in 1..Len(GlyphBands) : GlyphBands[b] = glyph

\* C21: for every score the band of its glyph is the band of its color, so
\* another score has the same glyph exactly when it has the same color.
C21_GlyphBandIsColorBand ==
  (renderInput.fn = "getTemperatureEmoji" /\ renderOutput.done) =>
    /\ renderOutput.value \in { GlyphBands[b] : b \in 1..Len(GlyphBands) }
    /\ GlyphBandOf(renderOutput.value)
         = ColorBandOf(getSimilarityColor(renderInput.arg))
    /\ \A other \in Scores :
         (getTemperatureEmoji(other) = renderOutput.value)
           <=> (getSimilarityColor(other) = getSimilarityColor(renderInput.arg))

\* The glyph of a score between 70 and 80 has been computed: two flames, the
\* second band, as its color.
C21_Witness ==
  /\ renderInput.fn = "getTemperatureEmoji"
  /\ renderInput.arg = 72 * ScoreSteps
  /\ renderOutput.done
  /\ renderOutput.value = "flame flame"

\* Reading a text back: the number a sequence of digits writes, and the
\* place of the first "/" of a text.
DigitValue(ch) == CHOOSE d \in 0..9 : Digit(d) = ch

IsDigits(text) ==
  /\ text # <<>>
  /\ \A i \in 1..Len(text) : \E d \in 0..9 : Digit(d) = text[i]
  /\ Len(text) > 1 => text[1] # "0"

RECURSIVE NumberOf(_)
NumberOf(text) ==
  IF text = <<>> THEN 0
  ELSE 10 * NumberOf(SubSeq(text, 1, Len(text) - 1)) + DigitValue(text[Len(text)])

SlashAt(text) == CHOOSE i \in 1..Len(text) : text[i] = "/" /\ \A j \in 1..(i - 1) : text[j] # "/"

\* C22: the text of an absent percentile is the fixed placeholder; the text of
\* any other percentile reads as <percentile>/1000 with the percentile the
\* service supplied, whatever the rank of the guess.
C22_PercentileTextIsServiceValue ==
  (renderInput.fn = "getPercentileDisplay" /\ renderOutput.done) =>
    IF renderInput.arg.percentile = NoPercentile
      THEN renderOutput.value = Placeholder
      ELSE /\ \E i \in 1..Len(renderOutput.value) : renderOutput.value[i] = "/"
           /\ LET text == renderOutput.value
                  slash == SlashAt(text)
                  before == SubSeq(text, 1, slash - 1)
                  after == SubSeq(text, slash + 1, Len(text))
              IN /\ IsDigits(before)
                 /\ NumberOf(before) = renderInput.arg.percentile
                 /\ after = << "1", "0", "0", "0" >>

\* The text of percentile 0 of a guess of rank 1200, and the text of an absent
\* percentile, have been computed.
C22_Witness ==
  /\ renderInput.fn = "getPercentileDisplay"
  /\ renderOutput.done
  /\ \/ /\ renderInput.arg = [ percentile |-> 0, rank |-> 1200 ]
        /\ renderOutput.value = << "0", "/", "1", "0", "0", "0" >>
     \/ /\ renderInput.arg.percentile = NoPercentile
        /\ renderOutput.value = Placeholder

\* The texts shown when a failure carries no detail.
Fallbacks ==
  { "Failed to start game", "Failed to make guess", "Failed to get game state",
    "Failed to get clue", "Failed to give up", "guess error", "clue error",
    "give-up error" }

\* A request of run t fails in the way f.
RequestFails(t, f) ==
  \/ StartGameFails(t, f)
  \/ MakeGuessFails(t, f)
  \/ GetGameStateFails(t, f)
  \/ GetClueFails(t, f)
  \/ GiveUpFails(t, f)

\* C23: the step in which a request fails with a non-2xx response sets the
\* error to the detail of the response body when the body has one, and to a
\* fallback text when it has none, for start, guess, fetch, clue and give-up.
C23_ErrorIsDetailVerbatim ==
  [][\A t \in InFlight, f \in Failures :
       RequestFails(t, f)
         => IF f = "detail" THEN error' = DetailText ELSE error' \in Fallbacks]_vars

\* C24: the step in which a health check, start, guess, fetch, clue or give-up
\* fails sends no request: the failed request leaves the requests in flight
\* and nothing takes its place, and a timer that fires sends nothing either.
C24_NoAutomaticRetry ==
  [][/\ \A t \in InFlight :
          (CheckHealthResolves(t, FALSE) \/ \E f \in Failures : RequestFails(t, f))
            => tasks' = Finish(t)
     /\ (ClueTimerFires \/ CelebrationFires) => tasks' = tasks]_vars

\* A request of a session has failed and nothing is in flight.
C24_Witness ==
  /\ gameState # NoGame
  /\ error # ""
  /\ tasks = EmptyBag

\* C25: in a step that keeps the session, cluesUsed does not decrease.
C25_CluesUsedNeverDecreases ==
  [][(gameState # NoGame /\ gameState'.game_id = gameState.game_id)
       => cluesUsed' >= cluesUsed]_vars

\* C26: whenever a clue is shown, a later state shows none, when armed clue
\* timers are allowed to fire.
C26_ClueEventuallyCleared ==
  (currentClue # NoClue) ~> (currentClue = NoClue)

\* A clue has been revealed: it is shown and its timer is armed.
C26_Witness ==
  /\ currentClue # NoClue
  /\ clueTimers # <<>>
  /\ clueTimers[Len(clueTimers)] = currentClue

\* A text of white space only, the empty text included.
IsBlank(text) == \A k \in 1..Len(text) : text[k] = " "

\* w is text without the white space around it, in lower case.
IsLowerTrimmedOf(w, text) ==
  /\ w # <<>> => (w[1] # " " /\ w[Len(w)] # " ")
  /\ \E i \in 0..Len(text) :
       /\ i + Len(w) <= Len(text)
       /\ \A k \in 1..Len(text) :
            IF k <= i \/ k > i + Len(w)
              THEN text[k] = " "
              ELSE w[k - i] = LowerChar(text[k])

\* C27: handleGuess on a blank text can only return at once: it sends no
\* request and changes nothing.  A step of handleGuess that sends a request
\* sends one guess request, for the text in lower case without the white space
\* around it.
C27_BlankIsNoOpElseLowerTrimmed ==
  [][\A text \in Inputs :
       /\ IsBlank(text)
            => ~ENABLED (handleGuess(text) /\ guessInput' = guessInput
                         /\ UNCHANGED << renderInput, renderOutput >>
                         /\ session' # session)
       /\ ((SubmitEditing(text) \/ (PressGuess /\ guessInput = text))
             /\ tasks' # tasks)
            => \E t \in BagToSet(tasks') :
                 /\ tasks' = Spawn(t)
                 /\ t.req = "makeGuess"
                 /\ IsLowerTrimmedOf(t.word, text)]_vars

\* A guess typed with white space and in upper case is in flight.
C27_Witness ==
  /\ guessInput = << " ", "A" >>
  /\ \E t \in InFlight : t.req = "makeGuess" /\ t.word = << "a" >>

\* C28: the step in which a give-up request fails sets an error, keeps the
\* session on screen (its id, guesses and guess count), the clue counter, the
\* clue text and the clue timers as they were, reveals no word and sends no
\* request to start a game.
C28_FailedGiveUpKeepsSession ==
  [][\A t \in InFlight, f \in Failures :
       GiveUpFails(t, f)
         => /\ error' # ""
            /\ gameState' = gameState
            /\ cluesUsed' = cluesUsed
            /\ currentClue' = currentClue
            /\ clueTimers' = clueTimers
            /\ revealed' = revealed
            /\ CountIn({ "startGame" })' = CountIn({ "startGame" })
            /\ tasks' = Finish(t)]_vars

\* A give-up has failed in a session that has a guess and a clue.
C28_Witness ==
  /\ error = "give-up error"
  /\ gameState # NoGame
  /\ gameState.guess_count > 0
  /\ cluesUsed > 0
  /\ tasks = EmptyBag

\* C29: once the component is mounted and no request is in flight, either a
\* session is on screen or the unreachable view with its retry button is.
C29_InitializeEndsActiveOrUnreachable ==
  (mounted /\ tasks = EmptyBag) => (GameShown \/ RetryShown)

\* The last request of a run of initializeGame, startNewGame, handleGuess or
\* handleGetClue resolves or fails: the run reaches its finally block.
RunEnds(t) ==
  \/ StartGameResolves(t)
  \/ GetGameStateResolves(t)
  \/ GetClueResolves(t)
  \/ \E f \in Failures :
       \/ StartGameFails(t, f)
       \/ MakeGuessFails(t, f)
       \/ GetGameStateFails(t, f)
       \/ GetClueFails(t, f)

\* C30: the step in which the last request of a start, guess or clue run
\* resolves or fails sets loading to false, and, when requests settle, loading
\* never stays true for ever.
C30_LoadingEventuallyCleared ==
  /\ [][\A t \in InFlight : RunEnds(t) => loading' = FALSE]_vars
  /\ loading ~> ~loading

\* A guess has been sent and applied: loading is false again and nothing is
\* in flight.
C30_Witness ==
  /\ gameState # NoGame
  /\ gameState.guess_count > 0
  /\ error = ""
  /\ ~loading
  /\ tasks = EmptyBag

\* C31: whenever a session is on screen, no request is in flight and no error
\* is set, the guesses and the guess count on screen are those the service
\* holds for that session.
C31_LocalEqualsRemote ==
  (gameState # NoGame /\ tasks = EmptyBag /\ error = "")
    => /\ gameState.guesses = games[gameState.game_id].guesses
       /\ gameState.guess_count = Len(games[gameState.game_id].guesses)

\* C32: a run of handleGuess sends a guess request and then, in the step in
\* which that request succeeds and in no other step, one request for the
\* session of the same game; the run ends when the guess request fails or the
\* session request settles.  The guesses on screen change only in a step that
\* applies the payload of a start or of a session request, and become that
\* payload.
C32_GuessThenFetch ==
  [][/\ CountIn({ "getGameState" })' > CountIn({ "getGameState" })
          => \E t \in InFlight, u \in BagToSet(tasks') :
               /\ MakeGuessResolves(t)
               /\ u.req = "getGameState"
               /\ u.game_id = t.game_id
               /\ tasks' = Continue(t, u)
     /\ \A t \in InFlight :
          /\ (MakeGuessResolves(t) \/ \E f \in Failures : MakeGuessFails(t, f))
               => gameState' = gameState
          /\ (\/ GetGameStateResolves(t)
              \/ \E f \in Failures : MakeGuessFails(t, f) \/ GetGameStateFails(t, f))
               => tasks' = Finish(t)
     /\ (gameState'.guesses # gameState.guesses
          \/ gameState'.guess_count # gameState.guess_count)
          => \E t \in InFlight :
               \/ /\ StartGameResolves(t)
                  /\ gameState' = GameStateOf(games', gameState'.game_id)
               \/ /\ GetGameStateResolves(t)
                  /\ gameState' = GameStateOf(games, t.game_id)]_vars

\* The guess request has succeeded and the session request is in flight: the
\* service holds the guess and the screen does not show it yet.
C32_Witness ==
  \E t \in InFlight :
    /\ t.req = "getGameState"
    /\ t.game_id = gameState.game_id
    /\ HasWord(games[t.game_id].guesses, t.word)
    /\ ~HasWord(gameState.guesses, t.word)

====
